---- MODULE Spec2Model ----
(***************************************************************************)
(* Model of application.py: the outdoor-lights scheduler.                  *)
(*                                                                         *)
(*   Lights     debounced actuator (property `on` behind a Lock)           *)
(*   TimeSlot   daily on-interval with optional weekday filter             *)
(*   Scheduler  background thread: run / _loop / greet                     *)
(*                                                                         *)
(* A datetime is a record [days, secs, us]: proleptic ordinal of the date, *)
(* second of the day, microsecond of the second.  A timedelta is a record  *)
(* [days, seconds, microseconds], normalised as Python normalises it.      *)
(* Python's None is the empty sequence, a present value v is <<v>>.        *)
(***************************************************************************)
EXTENDS Integers, Sequences, FiniteSets, TLC

None == << >>

Some(v) == << v >>

\* ---------------------------------------------------------------- datetime

\* timedelta(days, seconds, microseconds): carries are floor divisions, so
\* 0 <= seconds < 86400 and 0 <= microseconds < 1000000 whatever the sign.
Timedelta(d, s, u) ==
    LET s2 == s + (u \div 1000000)
    IN  [days         |-> d + (s2 \div 86400),
         seconds      |-> s2 % 86400,
         microseconds |-> u % 1000000]

\* datetime(...) of an ordinal day, an hour, a minute, a second, a microsecond
Datetime(ord, h, m, s, u) == [days |-> ord, secs |-> h * 3600 + m * 60 + s, us |-> u]

\* datetime - datetime
DtSub(a, b) == Timedelta(a.days - b.days, a.secs - b.secs, a.us - b.us)

\* timedelta - timedelta
TdSub(a, b) ==
    Timedelta(a.days - b.days, a.seconds - b.seconds, a.microseconds - b.microseconds)

\* datetime + timedelta
DtAdd(a, td) ==
    LET n == Timedelta(a.days + td.days, a.secs + td.seconds, a.us + td.microseconds)
    IN  [days |-> n.days, secs |-> n.seconds, us |-> n.microseconds]

\* datetime < datetime
DtLess(a, b) ==
    \/ a.days < b.days
    \/ a.days = b.days /\ a.secs < b.secs
    \/ a.days = b.days /\ a.secs = b.secs /\ a.us < b.us

\* datetime.weekday(): Monday is 0
Weekday(x) == (x.days + 6) % 7

\* datetime.strptime(t, "%H:%M") of the text "HH:MM", given as <<HH, MM>>:
\* the date defaults to 1900-01-01 (ordinal 693596)
Strptime(t) == Datetime(693596, t[1], t[2], 0, 0)

\* ---------------------------------------------------------------- TimeSlot

\* TimeSlot.__init__
TimeSlot(start, stop, weekdays) ==
    [range |-> << Strptime(start), Strptime(stop) >>, weekdays |-> weekdays]

\* UntilNext without the one-microsecond tie-break
UntilNextNoTie(slot, x) ==
    [i \in {1, 2} |-> DtSub(slot.range[i], x)]

\* the remaining-time vector of TimeSlot.within
UntilNext(slot, x) ==
    [i \in {1, 2} |-> TdSub(DtSub(slot.range[i], x), Timedelta(0, 0, 1))]

\* Within with the weekday filter left out
WithinNoWeekdays(slot, x) ==
    UntilNext(slot, x)[1].seconds > UntilNext(slot, x)[2].seconds

\* Within that tests the weekday set for truth (`if self._weekdays and ...`),
\* so that an empty set is no filter
WithinTruthy(slot, x) ==
    IF slot.weekdays # None /\ slot.weekdays[1] # {}
       /\ Weekday(x) \notin slot.weekdays[1]
    THEN FALSE
    ELSE UntilNext(slot, x)[1].seconds > UntilNext(slot, x)[2].seconds

\* Within that compares the timestamp with the range itself, calendar day
\* included (`self._range[0] <= x < self._range[1]`)
WithinAbsolute(slot, x) ==
    IF slot.weekdays # None /\ Weekday(x) \notin slot.weekdays[1]
    THEN FALSE
    ELSE ~DtLess(x, slot.range[1]) /\ DtLess(x, slot.range[2])

\* TimeSlot.within
Within(slot, x) ==
    IF slot.weekdays # None /\ Weekday(x) \notin slot.weekdays[1]
    THEN FALSE
    ELSE UntilNext(slot, x)[1].seconds > UntilNext(slot, x)[2].seconds

\* ------------------------------------------------------------------ bounds

\* the clock stops once this many events have been triggered
MaxEffects == 3

\* the day the clock runs on: Monday 2019-07-08, as an ordinal
Day0 == 737248

\* the instants the clock visits, around the end of the configured slot
Instants ==
    { Datetime(Day0, 21, 59, 59, 999999),
      Datetime(Day0, 22, 0, 0, 0),
      Datetime(Day0, 22, 1, 0, 0),
      Datetime(Day0, 22, 2, 59, 999999),
      Datetime(Day0, 22, 3, 0, 0),
      Datetime(Day0, 22, 5, 0, 0) }

Minutes(n) == Timedelta(0, n * 60, 0)

\* the durations greet() is called with
Durations == { Minutes(2), Minutes(10) }

\* the trigger_loopback requests made, each by a thread of its own
MaxRequests == 3

Requests == 1 .. MaxRequests

\* ------------------------------------------------------------------- state

VARIABLES
    now,          \* datetime.utcnow()
    sun_up,       \* what Sun.up answers at `now`
    lights_on,    \* Lights._on
    lock,         \* Lights._lock: "free" or the thread holding it
    effects,      \* the events webhooks_trigger was called with, in order
    on_slots,     \* Scheduler._on_slots
    greet_until,  \* Scheduler._greet_until
    dirty,        \* Scheduler._dirty (the Event's flag)
    pc,           \* where the constructing / scheduler thread stands
    on,           \* _loop's local `on`
    todo,         \* the slots the for loop of _loop has still to visit
    pending,      \* the event the setter is about to trigger
    gpc,          \* where the request thread running greet() stands
    spc,          \* where the request thread running root() stands
    phase,        \* history: construction / first set() of the loop / later
    changes,      \* history: strict value changes of Lights._on
    last_greet,   \* history: <<time, duration>> of the last greet() call
    shortened,    \* history: the last greet() call moved the deadline back
    slot_on,      \* history: some slot was active in this tick
    greet_on,     \* history: the override was active in this tick
    sun_seen,     \* history: the sun was up in this tick
    unseen,       \* history: a greet() deadline the loop has not read yet
    yielded,      \* history: what the decision formula yielded in this tick
    since,        \* history: events the loop set out to trigger since a
                  \*          signal changed
    tpc,          \* where each thread running trigger_loopback() stands
    response,     \* what loopback_complete.get() returned to each of them
    confirming,   \* the triggers whose confirmation the service has yet to
                  \*          send
    loopback_complete,  \* the module-level Queue, as the triggers confirmed
    failed        \* history: the value whose delivery failed last, if it is
                  \*          still the commanded value

lightsVars == << lights_on, lock, effects, pending, changes, failed >>

loopVars == << pc, on, todo, phase, slot_on, greet_on, sun_seen >>

greetVars == << greet_until, dirty, gpc, last_greet, shortened >>

envVars == << now, sun_up >>

loopbackVars == << tpc, response, confirming, loopback_complete >>

vars == << now, sun_up, lights_on, lock, effects, on_slots, greet_until, dirty,
           pc, on, todo, pending, gpc, spc, phase, changes, last_greet, shortened,
           slot_on, greet_on, sun_seen, unseen, yielded, since, tpc, response,
           confirming, loopback_complete, failed >>

\* the module-level configuration: {TimeSlot('05:00', '22:00')}
ConfiguredSlots == { TimeSlot(<< 5, 0 >>, << 22, 0 >>, None) }

\* Lights.__init__ has run up to `self._on = True`; `self.on = False` is next
Init ==
    /\ now = Datetime(Day0, 21, 59, 59, 999999)
    /\ sun_up \in BOOLEAN
    /\ lights_on = TRUE
    /\ lock = "free"
    /\ effects = << >>
    /\ on_slots = ConfiguredSlots
    /\ greet_until = None
    /\ dirty = FALSE
    /\ pc = "ctor"
    /\ on = FALSE
    /\ todo = {}
    /\ pending = None
    /\ gpc = "idle"
    /\ spc = "idle"
    /\ phase = "ctor"
    /\ changes = 0
    /\ last_greet = None
    /\ shortened = FALSE
    /\ slot_on = FALSE
    /\ greet_on = FALSE
    /\ sun_seen = FALSE
    /\ failed = None
    /\ unseen = FALSE
    /\ loopback_complete = << >>
    /\ confirming = {}
    /\ response = [r \in Requests |-> None]
    /\ tpc = [r \in Requests |-> "idle"]
    /\ since = 0
    /\ yielded = {}

\* the application serves requests once the module has been imported
Serving == pc \notin { "ctor", "ctor_trigger", "crashed" }

\* ------------------------------------------------------------------ Lights

\* a setter that triggers on every call
SetterNoDebounce(cur, desired) ==
    [on    |-> desired,
     event |-> Some(IF desired THEN "outdoor_lights_on" ELSE "outdoor_lights_off")]

\* the two branches of the setter of Lights.on: the new _on and the event
Setter(cur, desired) ==
    IF desired /\ ~cur THEN [on |-> TRUE, event |-> Some("outdoor_lights_on")]
    ELSE IF ~desired /\ cur THEN [on |-> FALSE, event |-> Some("outdoor_lights_off")]
    ELSE [on |-> cur, event |-> None]

\* the history of a setter call that assigns v to _on
Assigned(v) ==
    /\ changes' = IF v # lights_on THEN changes + 1 ELSE changes
    /\ failed' = IF v # lights_on THEN None ELSE failed

\* a constructor that only assumes the baseline and leaves the first
\* transition to the loop
CtorSetNoOff ==
    /\ pc = "ctor"
    /\ pc' = "loop"
    /\ phase' = "constructed"
    /\ UNCHANGED << on_slots, since, yielded, unseen, on, todo, spc, slot_on, greet_on, sun_seen >>
    /\ UNCHANGED lightsVars
    /\ UNCHANGED greetVars
    /\ UNCHANGED envVars
    /\ UNCHANGED loopbackVars

\* Lights.__init__: self.on = False, up to the call of webhooks_trigger
CtorSet ==
    /\ pc = "ctor"
    /\ lock = "free"
    /\ LET r == Setter(lights_on, FALSE)
       IN  /\ lights_on' = r.on
           /\ Assigned(r.on)
           /\ pending' = r.event
           /\ IF r.event = None
              THEN lock' = "free" /\ pc' = "loop" /\ phase' = "constructed"
              ELSE lock' = "ctor" /\ pc' = "ctor_trigger" /\ phase' = phase
    /\ UNCHANGED << effects, on_slots, since, yielded, unseen, on, todo, spc, slot_on, greet_on, sun_seen >>
    /\ UNCHANGED greetVars
    /\ UNCHANGED envVars
    /\ UNCHANGED loopbackVars

\* webhooks_trigger called from Lights.__init__: when it raises, the import
\* of the module fails and no scheduler exists; otherwise the rest of
\* Scheduler.__init__ runs and scheduler.start() starts the thread
CtorTrigger ==
    /\ pc = "ctor_trigger"
    /\ effects' = Append(effects, pending[1])
    /\ pending' = None
    /\ lock' = "free"
    /\ \E ok \in BOOLEAN :
          IF ok
          THEN pc' = "loop" /\ phase' = "constructed" /\ failed' = failed
          ELSE pc' = "crashed" /\ phase' = phase /\ failed' = Some(lights_on)
    /\ UNCHANGED << lights_on, changes, on_slots, since, yielded, unseen, on, todo, spc,
                    slot_on, greet_on, sun_seen >>
    /\ UNCHANGED greetVars
    /\ UNCHANGED envVars
    /\ UNCHANGED loopbackVars

\* root(): the getter of Lights.on takes the lock ...
StatusAcquire ==
    /\ Serving
    /\ spc = "idle"
    /\ lock = "free"
    /\ lock' = "status"
    /\ spc' = "reading"
    /\ UNCHANGED << lights_on, effects, pending, changes, failed, on_slots, since, yielded, unseen >>
    /\ UNCHANGED loopVars
    /\ UNCHANGED greetVars
    /\ UNCHANGED envVars
    /\ UNCHANGED loopbackVars

\* ... and returns _on, releasing it
StatusRelease ==
    /\ spc = "reading"
    /\ lock' = "free"
    /\ spc' = "idle"
    /\ UNCHANGED << lights_on, effects, pending, changes, failed, on_slots, since, yielded, unseen >>
    /\ UNCHANGED loopVars
    /\ UNCHANGED greetVars
    /\ UNCHANGED envVars
    /\ UNCHANGED loopbackVars

\* --------------------------------------------------------------- Scheduler

\* what _loop computes when all its reads see the time t, the sun answer up
\* and the deadline until: (some slot active or t before the deadline) and
\* the sun not up
Desired(t, up, until) ==
    /\ \/ \E slot \in on_slots : Within(slot, t)
       \/ until # None /\ DtLess(t, until[1])
    /\ ~up

\* the loop is inside _loop, between its first statement and its set()
InTick == pc \in { "slots", "greet", "greet_cmp", "sun", "set" }

\* run: the call of _loop; _loop: on = False and the start of the for loop
LoopBegin ==
    /\ pc = "loop"
    /\ on' = FALSE
    /\ todo' = on_slots
    /\ pc' = IF on_slots = {} THEN "greet" ELSE "slots"
    /\ slot_on' = FALSE
    /\ greet_on' = FALSE
    /\ sun_seen' = FALSE
    /\ yielded' = { Desired(now, sun_up, greet_until) }
    /\ UNCHANGED << on_slots, since, unseen, spc, phase >>
    /\ UNCHANGED lightsVars
    /\ UNCHANGED greetVars
    /\ UNCHANGED envVars
    /\ UNCHANGED loopbackVars

\* _loop: one pass of the for loop; TimeSlot.active reads the clock itself
LoopSlot ==
    /\ pc = "slots"
    /\ \E on_slot \in todo :
          /\ on' = IF Within(on_slot, now) THEN TRUE ELSE on
          /\ slot_on' = (slot_on \/ Within(on_slot, now))
          /\ todo' = todo \ { on_slot }
          /\ pc' = IF todo' = {} THEN "greet" ELSE "slots"
    /\ UNCHANGED << on_slots, since, yielded, unseen, spc, phase, greet_on, sun_seen >>
    /\ UNCHANGED lightsVars
    /\ UNCHANGED greetVars
    /\ UNCHANGED envVars
    /\ UNCHANGED loopbackVars

\* _loop: `self._greet_until is not None`, the first read of the field
LoopGreetNone ==
    /\ pc = "greet"
    /\ pc' = IF greet_until # None THEN "greet_cmp" ELSE "sun"
    /\ UNCHANGED << on, todo, on_slots, since, yielded, unseen, spc, phase, slot_on, greet_on, sun_seen >>
    /\ UNCHANGED lightsVars
    /\ UNCHANGED greetVars
    /\ UNCHANGED envVars
    /\ UNCHANGED loopbackVars

\* a comparison that keeps the override on at the deadline itself
GreetCompareInclusive(t, until) == ~DtLess(until, t)

\* `datetime.utcnow() < self._greet_until`
GreetCompare(t, until) == DtLess(t, until)

\* a tick that clears the deadline once it finds it past
LoopGreetCompareClears ==
    /\ pc = "greet_cmp"
    /\ on' = IF GreetCompare(now, greet_until[1]) THEN TRUE ELSE on
    /\ greet_on' = GreetCompare(now, greet_until[1])
    /\ greet_until' = IF GreetCompare(now, greet_until[1]) THEN greet_until ELSE None
    /\ unseen' = FALSE
    /\ pc' = "sun"
    /\ UNCHANGED << todo, on_slots, since, yielded, spc, phase, slot_on, sun_seen >>
    /\ UNCHANGED lightsVars
    /\ UNCHANGED << dirty, gpc, last_greet, shortened >>
    /\ UNCHANGED envVars
    /\ UNCHANGED loopbackVars

\* _loop: the comparison, a second read of the field and a read of the clock
LoopGreetCompare ==
    /\ pc = "greet_cmp"
    /\ on' = IF GreetCompare(now, greet_until[1]) THEN TRUE ELSE on
    /\ greet_on' = GreetCompare(now, greet_until[1])
    /\ unseen' = FALSE
    /\ pc' = "sun"
    /\ UNCHANGED << todo, on_slots, since, yielded, spc, phase, slot_on, sun_seen >>
    /\ UNCHANGED lightsVars
    /\ UNCHANGED greetVars
    /\ UNCHANGED envVars
    /\ UNCHANGED loopbackVars

\* a tick that does not let the sun override the decision
SunIgnored(cur, up) == cur

\* `if self._sun.up: on = False`
SunOverride(cur, up) == IF up THEN FALSE ELSE cur

\* _loop: the query of the sun oracle, which answers or raises
LoopSun ==
    /\ pc = "sun"
    /\ \/ /\ on' = SunOverride(on, sun_up)
          /\ sun_seen' = sun_up
          /\ pc' = "set"
          /\ yielded' = yielded
          /\ since' = since
       \/ /\ pc' = "except"
          /\ yielded' = {}
          /\ since' = 0
          /\ UNCHANGED << on, sun_seen >>
    /\ UNCHANGED << todo, on_slots, unseen, spc, phase, slot_on, greet_on >>
    /\ UNCHANGED lightsVars
    /\ UNCHANGED greetVars
    /\ UNCHANGED envVars
    /\ UNCHANGED loopbackVars

\* the history of a set() call of the loop that has ended
SetEnded == IF phase = "constructed" THEN "first_set" ELSE "running"

\* a tick that computes the decision and does not assign it
LoopSetSkip ==
    /\ pc = "set"
    /\ pc' = "wait"
    /\ phase' = SetEnded
    /\ yielded' = {}
    /\ UNCHANGED << lights_on, lock, effects, pending, changes, failed >>
    /\ UNCHANGED << on, todo, on_slots, since, unseen, spc, slot_on, greet_on, sun_seen >>
    /\ UNCHANGED greetVars
    /\ UNCHANGED envVars
    /\ UNCHANGED loopbackVars

\* a setter that assigns and triggers without taking the lock
LoopSetNoLock ==
    /\ pc = "set"
    /\ LET r == Setter(lights_on, on)
       IN  /\ lights_on' = r.on
           /\ Assigned(r.on)
           /\ pending' = r.event
           /\ yielded' = {}
           /\ since' = IF r.event = None THEN since ELSE since + 1
           /\ IF r.event = None
              THEN lock' = lock /\ pc' = "wait" /\ phase' = SetEnded
              ELSE lock' = lock /\ pc' = "trigger" /\ phase' = phase
    /\ UNCHANGED << effects, on, todo, on_slots, unseen, spc, slot_on, greet_on, sun_seen >>
    /\ UNCHANGED greetVars
    /\ UNCHANGED envVars
    /\ UNCHANGED loopbackVars

\* _loop: self._lights.on = on, up to the call of webhooks_trigger
LoopSet ==
    /\ pc = "set"
    /\ lock = "free"
    /\ LET r == Setter(lights_on, on)
       IN  /\ lights_on' = r.on
           /\ Assigned(r.on)
           /\ pending' = r.event
           /\ yielded' = {}
           /\ since' = IF r.event = None THEN since ELSE since + 1
           /\ IF r.event = None
              THEN lock' = "free" /\ pc' = "wait" /\ phase' = SetEnded
              ELSE lock' = "loop" /\ pc' = "trigger" /\ phase' = phase
    /\ UNCHANGED << effects, on, todo, on_slots, unseen, spc, slot_on, greet_on, sun_seen >>
    /\ UNCHANGED greetVars
    /\ UNCHANGED envVars
    /\ UNCHANGED loopbackVars

\* a setter that rolls _on back when the delivery fails
LoopTriggerRollback ==
    /\ pc = "trigger"
    /\ effects' = Append(effects, pending[1])
    /\ pending' = None
    /\ lock' = "free"
    /\ phase' = SetEnded
    /\ \E ok \in BOOLEAN :
          IF ok
          THEN pc' = "wait" /\ failed' = failed /\ lights_on' = lights_on
          ELSE pc' = "except" /\ failed' = Some(lights_on) /\ lights_on' = ~lights_on
    /\ UNCHANGED << changes, on, todo, on_slots, since, yielded, unseen, spc, slot_on, greet_on, sun_seen >>
    /\ UNCHANGED greetVars
    /\ UNCHANGED envVars
    /\ UNCHANGED loopbackVars

\* webhooks_trigger called from the setter: the request goes out and
\* raise_for_status returns or raises; either way the with block releases
\* the lock, and _on keeps the value assigned before the call
LoopTrigger ==
    /\ pc = "trigger"
    /\ effects' = Append(effects, pending[1])
    /\ pending' = None
    /\ lock' = "free"
    /\ phase' = SetEnded
    /\ \E ok \in BOOLEAN :
          IF ok
          THEN pc' = "wait" /\ failed' = failed
          ELSE pc' = "except" /\ failed' = Some(lights_on)
    /\ UNCHANGED << lights_on, changes, on, todo, on_slots, since, yielded, unseen, spc,
                    slot_on, greet_on, sun_seen >>
    /\ UNCHANGED greetVars
    /\ UNCHANGED envVars
    /\ UNCHANGED loopbackVars

\* run: self._dirty.wait(1.0) returns at once, the flag being set
LoopWaitSet ==
    /\ pc = "wait"
    /\ dirty
    /\ pc' = "clear"
    /\ UNCHANGED << on, todo, on_slots, since, yielded, unseen, spc, phase, slot_on, greet_on, sun_seen >>
    /\ UNCHANGED lightsVars
    /\ UNCHANGED greetVars
    /\ UNCHANGED envVars
    /\ UNCHANGED loopbackVars

\* run: self._dirty.wait(1.0) times out, the flag not being set
LoopWaitTimeout ==
    /\ pc = "wait"
    /\ ~dirty
    /\ pc' = "clear"
    /\ UNCHANGED << on, todo, on_slots, since, yielded, unseen, spc, phase, slot_on, greet_on, sun_seen >>
    /\ UNCHANGED lightsVars
    /\ UNCHANGED greetVars
    /\ UNCHANGED envVars
    /\ UNCHANGED loopbackVars

\* run: self._dirty.clear()
LoopClear ==
    /\ pc = "clear"
    /\ dirty' = FALSE
    /\ pc' = "loop"
    /\ UNCHANGED << greet_until, gpc, last_greet, shortened >>
    /\ UNCHANGED << on, todo, on_slots, since, yielded, unseen, spc, phase, slot_on, greet_on, sun_seen >>
    /\ UNCHANGED lightsVars
    /\ UNCHANGED envVars
    /\ UNCHANGED loopbackVars

\* a handler outside the while loop: the thread ends with the first exception
LoopExceptExit ==
    /\ pc = "except"
    /\ pc' = "dead"
    /\ UNCHANGED << on, todo, on_slots, since, yielded, unseen, spc, phase, slot_on, greet_on, sun_seen >>
    /\ UNCHANGED lightsVars
    /\ UNCHANGED greetVars
    /\ UNCHANGED envVars
    /\ UNCHANGED loopbackVars

\* run: except BaseException, inside the while loop: log and go round again
LoopExcept ==
    /\ pc = "except"
    /\ pc' = "loop"
    /\ UNCHANGED << on, todo, on_slots, since, yielded, unseen, spc, phase, slot_on, greet_on, sun_seen >>
    /\ UNCHANGED lightsVars
    /\ UNCHANGED greetVars
    /\ UNCHANGED envVars
    /\ UNCHANGED loopbackVars

\* a greet that only ever extends the deadline
GreetUntilMax(t, duration) ==
    IF greet_until # None /\ DtLess(DtAdd(t, duration), greet_until[1])
    THEN greet_until[1]
    ELSE DtAdd(t, duration)

\* `datetime.utcnow() + duration`
GreetUntil(t, duration) == DtAdd(t, duration)

\* a greet that goes through the lock of the actuator
GreetLocked(duration) ==
    /\ lock = "free"
    /\ Serving
    /\ gpc = "idle"
    /\ greet_until' = Some(GreetUntil(now, duration))
    /\ last_greet' = Some(<< now, duration >>)
    /\ shortened' = (greet_until # None /\ DtLess(greet_until'[1], greet_until[1]))
    /\ unseen' = TRUE
    /\ since' = 0
    /\ yielded' = IF InTick THEN yielded \cup { Desired(now, sun_up, greet_until') } ELSE yielded
    /\ gpc' = "signal"
    /\ UNCHANGED << dirty, on_slots, spc >>
    /\ UNCHANGED loopVars
    /\ UNCHANGED lightsVars
    /\ UNCHANGED envVars
    /\ UNCHANGED loopbackVars

\* greet: self._greet_until = datetime.utcnow() + duration
Greet(duration) ==
    /\ Serving
    /\ gpc = "idle"
    /\ greet_until' = Some(GreetUntil(now, duration))
    /\ last_greet' = Some(<< now, duration >>)
    /\ shortened' = (greet_until # None /\ DtLess(greet_until'[1], greet_until[1]))
    /\ unseen' = TRUE
    /\ since' = 0
    /\ yielded' = IF InTick THEN yielded \cup { Desired(now, sun_up, greet_until') } ELSE yielded
    /\ gpc' = "signal"
    /\ UNCHANGED << dirty, on_slots, spc >>
    /\ UNCHANGED loopVars
    /\ UNCHANGED lightsVars
    /\ UNCHANGED envVars
    /\ UNCHANGED loopbackVars

\* a greet that forgets to signal the loop
GreetSignalNoSet ==
    /\ gpc = "signal"
    /\ gpc' = "idle"
    /\ UNCHANGED << dirty, greet_until, last_greet, shortened, on_slots, since, yielded, unseen, spc >>
    /\ UNCHANGED loopVars
    /\ UNCHANGED lightsVars
    /\ UNCHANGED envVars
    /\ UNCHANGED loopbackVars

\* greet: self._dirty.set()
GreetSignal ==
    /\ gpc = "signal"
    /\ dirty' = TRUE
    /\ gpc' = "idle"
    /\ UNCHANGED << greet_until, last_greet, shortened, on_slots, since, yielded, unseen, spc >>
    /\ UNCHANGED loopVars
    /\ UNCHANGED lightsVars
    /\ UNCHANGED envVars
    /\ UNCHANGED loopbackVars

\* ------------------------------------------------------------- environment

\* time passes; the sun oracle is a function of the time
Advance ==
    /\ Len(effects) < MaxEffects
    /\ \E t \in Instants, up \in BOOLEAN :
          /\ DtLess(now, t)
          /\ now' = t
          /\ sun_up' = up
          /\ since' = 0
          /\ yielded' = IF InTick THEN yielded \cup { Desired(t, up, greet_until) } ELSE yielded
    /\ UNCHANGED << on_slots, unseen, spc >>
    /\ UNCHANGED loopVars
    /\ UNCHANGED lightsVars
    /\ UNCHANGED greetVars
    /\ UNCHANGED loopbackVars

Next ==
    \/ CtorSet
    \/ CtorTrigger
    \/ LoopBegin
    \/ LoopSlot
    \/ LoopGreetNone
    \/ LoopGreetCompare
    \/ LoopSun
    \/ LoopSet
    \/ LoopTrigger
    \/ LoopWaitSet
    \/ LoopWaitTimeout
    \/ LoopClear
    \/ LoopExcept
    \/ \E duration \in Durations : Greet(duration)
    \/ GreetSignal
    \/ StatusAcquire
    \/ StatusRelease
    \/ Advance

Spec == Init /\ [][Next]_vars

\* the steps of the scheduler thread
LoopStep ==
    \/ LoopBegin
    \/ LoopSlot
    \/ LoopGreetNone
    \/ LoopGreetCompare
    \/ LoopSun
    \/ LoopSet
    \/ LoopTrigger
    \/ LoopWaitSet
    \/ LoopWaitTimeout
    \/ LoopClear
    \/ LoopExcept

\* the threads are scheduled fairly: the scheduler thread takes its next
\* step when it can, and a status request that took the lock releases it
FairSpec == Spec /\ WF_vars(LoopStep) /\ WF_vars(StatusRelease)

\* ... and the lock is not taken from under the scheduler thread for ever:
\* status requests come and go, and the setter gets the lock in the end
LockFairSpec == FairSpec /\ SF_vars(LoopSet)

\* --------------------------------------------------- TimeSlot on its inputs

\* the days after Day0 a slot is evaluated on (Day0 .. Day0 + WeekSpan)
WeekSpan == 6

\* days of evaluation: a whole week from Monday 2019-07-08, the day before
\* the date strptime defaults to, and that date itself
SlotDays == (Day0 .. Day0 + WeekSpan) \cup { 693595, 693596 }

\* times of day of evaluation, as <<hour, minute, second>>
SlotTimes ==
    { << 0, 0, 0 >>, << 4, 59, 59 >>, << 5, 0, 0 >>, << 5, 59, 59 >>,
      << 6, 0, 0 >>, << 10, 0, 0 >>, << 21, 59, 59 >>, << 22, 0, 0 >>,
      << 22, 59, 59 >>, << 23, 0, 0 >>, << 23, 58, 59 >>, << 23, 59, 0 >>,
      << 23, 59, 59 >> }

SlotMicroseconds == { 0, 1, 999999 }

SlotInstants ==
    { Datetime(d, t[1], t[2], t[3], u) :
        d \in SlotDays, t \in SlotTimes, u \in SlotMicroseconds }

\* the (start, stop) arguments slots are built with, start before stop
SlotRanges ==
    { << << 6, 0 >>, << 23, 0 >> >>, << << 5, 0 >>, << 22, 0 >> >>,
      << << 0, 0 >>, << 23, 59 >> >>, << << 23, 0 >>, << 23, 59 >> >> }

\* the weekdays arguments slots are built with
SlotWeekdays == { None, Some({}), Some({ 0, 1, 2, 3, 4 }), Some({ 5, 6 }) }

SlotInputs ==
    { TimeSlot(r[1], r[2], w) : r \in SlotRanges, w \in SlotWeekdays }

\* whole days a timestamp is moved by, either way
MaxShift == 3

\* a scheduler constructed with one slot, at any time, about to run a tick
InitSlot ==
    /\ now \in SlotInstants
    /\ sun_up = FALSE
    /\ lights_on = FALSE
    /\ lock = "free"
    /\ effects = << "outdoor_lights_off" >>
    /\ on_slots \in { { slot } : slot \in SlotInputs }
    /\ greet_until = None
    /\ dirty = FALSE
    /\ pc = "loop"
    /\ on = FALSE
    /\ todo = {}
    /\ pending = None
    /\ gpc = "idle"
    /\ spc = "idle"
    /\ phase = "constructed"
    /\ changes = 1
    /\ last_greet = None
    /\ shortened = FALSE
    /\ slot_on = FALSE
    /\ greet_on = FALSE
    /\ sun_seen = FALSE
    /\ failed = None
    /\ unseen = FALSE
    /\ loopback_complete = << >>
    /\ confirming = {}
    /\ response = [r \in Requests |-> None]
    /\ tpc = [r \in Requests |-> "idle"]
    /\ since = 0
    /\ yielded = {}

\* the part of a tick that evaluates the slots
NextSlot ==
    \/ LoopBegin
    \/ LoopSlot

SpecSlot == InitSlot /\ [][NextSlot]_vars

\* ---------------------------------------------------------- loopback self-test

\* everything but the loopback endpoints
schedulerVars ==
    << now, sun_up, lights_on, lock, effects, on_slots, greet_until, dirty,
       pc, on, todo, pending, gpc, spc, phase, changes, last_greet, shortened,
       slot_on, greet_on, sun_seen, unseen, yielded, since, failed >>

\* trigger_loopback: webhooks_trigger('loopback', ...) returns, the service
\* having taken the request and owing its confirmation, or raises
TriggerLoopback(r) ==
    /\ tpc[r] = "idle"
    /\ \E ok \in BOOLEAN :
          IF ok
          THEN /\ tpc' = [tpc EXCEPT ![r] = "get"]
               /\ confirming' = confirming \cup { r }
          ELSE /\ tpc' = [tpc EXCEPT ![r] = "raised"]
               /\ confirming' = confirming
    /\ UNCHANGED << response, loopback_complete >>
    /\ UNCHANGED schedulerVars

\* loopback: the service posts the confirmation of trigger c, which the
\* handler puts on the queue
Loopback(c) ==
    /\ c \in confirming
    /\ confirming' = confirming \ { c }
    /\ loopback_complete' = Append(loopback_complete, c)
    /\ UNCHANGED << tpc, response >>
    /\ UNCHANGED schedulerVars

\* trigger_loopback: loopback_complete.get(timeout=10.0) returns the head of
\* the queue
LoopbackGet(r) ==
    /\ tpc[r] = "get"
    /\ loopback_complete # << >>
    /\ response' = [response EXCEPT ![r] = Some(Head(loopback_complete))]
    /\ loopback_complete' = Tail(loopback_complete)
    /\ tpc' = [tpc EXCEPT ![r] = "returned"]
    /\ UNCHANGED confirming
    /\ UNCHANGED schedulerVars

\* trigger_loopback: the get times out on an empty queue and raises Empty
LoopbackTimeout(r) ==
    /\ tpc[r] = "get"
    /\ loopback_complete = << >>
    /\ tpc' = [tpc EXCEPT ![r] = "raised"]
    /\ UNCHANGED << response, confirming, loopback_complete >>
    /\ UNCHANGED schedulerVars

\* a constructed scheduler and no loopback request made yet
InitLoopback ==
    /\ InitSlot
    /\ on_slots = ConfiguredSlots
    /\ now = Datetime(Day0, 22, 0, 0, 0)

NextLoopback ==
    \/ \E r \in Requests : TriggerLoopback(r)
    \/ \E c \in Requests : Loopback(c)
    \/ \E r \in Requests : LoopbackGet(r)
    \/ \E r \in Requests : LoopbackTimeout(r)

SpecLoopback == InitLoopback /\ [][NextLoopback]_vars

\* ------------------------------------------------------------- properties

Off == "outdoor_lights_off"

On == "outdoor_lights_on"

\* a webhooks_trigger call of a setter is in flight
Triggering == pc \in { "trigger", "ctor_trigger" }

\* C1 (state part): the events triggered are as many as the strict value
\* changes of _on since the baseline True, the one in flight counted apart
C1_EffectsAreChanges ==
    /\ ~Triggering => Len(effects) = changes
    /\ Triggering => Len(effects) + 1 = changes

\* C1 (step part): a set() whose value is the commanded value changes
\* neither _on nor the events and goes on without a trigger
C1_SameValueIsFree ==
    (pc = "set" /\ pc' # "set" /\ on = lights_on)
        => (lights_on' = lights_on /\ effects' = effects /\ pc' = "wait")

\* C1. Debounce: over any sequence of assignments to Lights.on the number of
\* events triggered equals the number of strict value changes of the
\* commanded value counted from the baseline True, and an assignment of the
\* value already commanded changes no state and triggers nothing.
C1_Debounce == []C1_EffectsAreChanges /\ [][C1_SameValueIsFree]_vars

\* C1 witness: the loop has made two or more set() calls and the only event
\* ever triggered is the one of the constructor
C1_Witness ==
    /\ phase = "running"
    /\ pc = "wait"
    /\ effects = << Off >>
    /\ changes = 1

C3_SunWins ==
    /\ pc = "set" => (on <=> ((slot_on \/ greet_on) /\ ~sun_seen))
    /\ pc \in { "trigger", "wait" } => (lights_on <=> ((slot_on \/ greet_on) /\ ~sun_seen))

\* C3 witness: a slot and the override were active, the sun was up, and the
\* tick is about to command off
C3_Witness ==
    /\ pc = "set"
    /\ slot_on
    /\ greet_on
    /\ sun_seen
    /\ ~on

\* the override as the loop evaluates it at time t
OverrideActive(t) == greet_until # None /\ GreetCompare(t, greet_until[1])

\* C4. Last write wins: the override is active at a time iff that time is
\* before (time of the most recent greet call + its duration); before any
\* call there is no deadline; greet(2 min) at 22:01 sets 22:03 whatever an
\* earlier call had set.
C4_LastWriteWins ==
    /\ last_greet = None => greet_until = None
    /\ last_greet # None =>
          /\ greet_until # None
          /\ \A t \in Instants :
                OverrideActive(t)
                    <=> DtLess(t, DtAdd(last_greet[1][1], last_greet[1][2]))
    /\ last_greet = Some(<< Datetime(Day0, 22, 1, 0, 0), Minutes(2) >>)
          => greet_until = Some(Datetime(Day0, 22, 3, 0, 0))

\* C4 witness: greet(2 min) at 22:01 overwrote a later deadline, and at
\* 22:05 the override is inactive
C4_Witness ==
    /\ shortened
    /\ last_greet = Some(<< Datetime(Day0, 22, 1, 0, 0), Minutes(2) >>)
    /\ now = Datetime(Day0, 22, 5, 0, 0)
    /\ ~OverrideActive(now)

\* the last greet call was greet(d) at T and t is before T + d
BeforeDeadline(t) ==
    /\ last_greet # None
    /\ DtLess(t, DtAdd(last_greet[1][1], last_greet[1][2]))

\* C5 (step part): the tick's reading of the override at time now is
\* "now < T + d" of the last greet call, and "inactive" before any call
C5_ReadsHalfOpen ==
    /\ (pc = "greet_cmp" /\ pc' = "sun") => (greet_on' <=> BeforeDeadline(now))
    /\ (pc = "greet" /\ pc' = "sun") => (~greet_on' /\ last_greet = None)

\* C5 (state part): with no slot active and the sun down the tick commands
\* what it read of the override
C5_CommandsOverride ==
    /\ (pc = "set" /\ ~slot_on /\ ~sun_seen) => (on <=> greet_on)
    /\ (pc = "wait" /\ ~slot_on /\ ~sun_seen) => (lights_on <=> greet_on)

\* C5. Expiry is half-open: with the sun down and no slot active, after
\* greet(d) at T a tick evaluated at now commands on when now < T + d and off
\* from now = T + d on; before any greet the override is inactive.
C5_HalfOpen == []C5_CommandsOverride /\ [][C5_ReadsHalfOpen]_vars

\* C5 witness: at the deadline itself, 22:03 for greet(2 min) at 22:01, a
\* tick with no slot active and the sun down has commanded off
C5_Witness ==
    /\ pc = "wait"
    /\ last_greet = Some(<< Datetime(Day0, 22, 1, 0, 0), Minutes(2) >>)
    /\ now = Datetime(Day0, 22, 3, 0, 0)
    /\ ~slot_on
    /\ ~sun_seen
    /\ ~greet_on
    /\ ~lights_on

\* the slot of a scheduler constructed with one slot
TheSlot == CHOOSE slot \in on_slots : TRUE

\* start <= time of day of x < stop, at second precision
InSlot(slot, x) == slot.range[1].secs <= x.secs /\ x.secs < slot.range[2].secs

\* the slots have been evaluated: `on` is what within() answered
Evaluated == pc = "greet"

\* C6. Boundary exactness: for a slot with start < stop and no weekday
\* filter, within(t) is true exactly when start <= time-of-day(t) < stop.
C6_BoundaryExact ==
    (Evaluated /\ TheSlot.weekdays = None) => (on <=> InSlot(TheSlot, now))

\* C6 witness: W(06:00, 23:00) is active at 06:00:00 sharp
C6_Witness ==
    /\ Evaluated
    /\ TheSlot = TimeSlot(<< 6, 0 >>, << 23, 0 >>, None)
    /\ now = Datetime(Day0, 6, 0, 0, 0)
    /\ on

\* the weekday of an ordinal day, counted from Monday 2019-07-08
DayOfWeek(d) == (d - Day0) % 7

\* C7. Weekday filter: a slot with a non-empty weekday set is inactive on a
\* day whose weekday is not in the set and equals the time-of-day test on a
\* day whose weekday is; 10:00 on Friday 2019-07-12 is active for
\* {Mon..Fri}, 10:00 on Saturday 2019-07-13 is not.
C7_WeekdayFilter ==
    /\ (Evaluated /\ TheSlot.weekdays # None /\ TheSlot.weekdays # Some({}))
          => (on <=> (/\ DayOfWeek(now.days) \in TheSlot.weekdays[1]
                      /\ InSlot(TheSlot, now)))
    /\ (/\ Evaluated
        /\ TheSlot = TimeSlot(<< 6, 0 >>, << 23, 0 >>, Some({ 0, 1, 2, 3, 4 }))
        /\ now.days \in Day0 .. Day0 + 6
        /\ now.secs = 36000)
          => (on <=> now.days \notin { Day0 + 5, Day0 + 6 })

\* C7 witness: the {Mon..Fri} slot is inactive at 10:00 on the Saturday
C7_Witness ==
    /\ Evaluated
    /\ TheSlot = TimeSlot(<< 6, 0 >>, << 23, 0 >>, Some({ 0, 1, 2, 3, 4 }))
    /\ now = Datetime(Day0 + 5, 10, 0, 0, 0)
    /\ ~on

\* C8 as stated: a slot with an empty weekday set behaves like one without
\* a weekday set, its result being the time-of-day test alone.
C8_EmptyLikeAbsent ==
    (Evaluated /\ TheSlot.weekdays = Some({})) => (on <=> InSlot(TheSlot, now))

\* C8 as amended. A slot without a weekday set (None) applies every day; a
\* slot with an empty weekday set is never active.
C8_EmptyNeverActive ==
    /\ (Evaluated /\ TheSlot.weekdays = Some({})) => ~on
    /\ (Evaluated /\ TheSlot.weekdays = None /\ InSlot(TheSlot, now)) => on

\* C8 witness: a slot with an empty weekday set is inactive at a time of day
\* inside its interval
C8_Witness ==
    /\ Evaluated
    /\ TheSlot.weekdays = Some({})
    /\ InSlot(TheSlot, now)
    /\ ~on

\* C9 (step part): the handler of run leads back into the loop
C9_HandlerLoops == pc = "except" => pc' \in { "except", "loop" }

\* C9. No tick ends the loop: an exception raised in a tick is caught in
\* run and the loop goes round; after a failing tick a next tick is
\* eventually evaluated.
C9_LoopSurvives ==
    /\ [][C9_HandlerLoops]_vars
    /\ (pc = "except") ~> (pc \in { "slots", "greet" })

\* C9 witness: a tick failed in the delivery of an event
C9_Witness == pc = "except" /\ failed # None

\* C10 (step part): a failing delivery propagates out of the setter with
\* _on keeping the value just assigned and the lock released
C10_FailureKeepsValue ==
    (pc = "trigger" /\ pc' = "except")
        => /\ lights_on' = lights_on
           /\ lights_on = (pending = Some(On))
           /\ lock' = "free"

\* C10 (state part): while the value whose delivery failed is the commanded
\* value, no delivery of it is attempted again
C10_NoRetry ==
    /\ failed # None => failed = Some(lights_on)
    /\ pc = "trigger" => failed = None

\* C10. A delivery failure leaves the commanded value updated and is not
\* retried: the failure propagates, _on is not rolled back, the lock is
\* released, and later set(v) calls trigger nothing until a transition away
\* from v.
C10_FailureNotRetried == []C10_NoRetry /\ [][C10_FailureKeepsValue]_vars

\* C10 witness: after a failed delivery a later set() of the same value has
\* returned without a trigger
C10_Witness ==
    /\ pc = "wait"
    /\ failed = Some(lights_on)
    /\ on = lights_on
    /\ phase = "running"

\* C11. No lost wake-up: once greet() has returned, the loop never sits out
\* a timeout wait before a tick has read the new deadline: whenever the
\* loop stands at the wait with a deadline it has not read, the flag is set;
\* and the deadline is read by a tick in the end.
C11_NoLostWakeup ==
    /\ [](pc = "wait" /\ unseen /\ gpc = "idle" => dirty)
    /\ (unseen /\ gpc = "idle") ~> ~unseen

\* C11 witness: the flag was cleared after greet() had set it, the deadline
\* is still unread, and the loop is about to evaluate a tick
C11_Witness ==
    /\ pc = "loop"
    /\ unseen
    /\ gpc = "idle"
    /\ ~dirty

\* C12. greet() never blocks on the loop: wherever the loop stands and
\* whoever holds the lock, a greet() call can take its first step, and one
\* under way can take its last.
C12_GreetNeverBlocks ==
    /\ (Serving /\ gpc = "idle") => \A duration \in Durations : ENABLED Greet(duration)
    /\ gpc = "signal" => ENABLED GreetSignal

\* C12 witness: a greet() call is under way while the loop is inside a
\* delivery, holding the lock
C12_Witness ==
    /\ pc = "trigger"
    /\ lock = "loop"
    /\ gpc = "signal"

\* the days a timestamp is moved to: up to MaxShift days either way, and every
\* day of evaluation, the day of the range itself (1900-01-01) included
ShiftedDays(x) == (x.days - MaxShift .. x.days + MaxShift) \cup SlotDays

\* C13. Day independence: for a slot without weekday filter,
\* within(t) = within(t + k days) for every timestamp t and every whole k,
\* however far t lies from the day the range was constructed on.
C13_DayIndependent ==
    (Evaluated /\ TheSlot.weekdays = None) =>
        \A d \in ShiftedDays(now) : Within(TheSlot, [now EXCEPT !.days = d]) = on

\* C13 witness: W(06:00, 23:00) is active at 06:00:00 sharp on 1900-01-01, the
\* day of the range itself, and there are days 43652 days away to compare with
C13_Witness ==
    /\ Evaluated
    /\ TheSlot = TimeSlot(<< 6, 0 >>, << 23, 0 >>, None)
    /\ now = Datetime(693596, 6, 0, 0, 0)
    /\ on
    /\ Day0 \in ShiftedDays(now)

\* the event that says `v`
EventOf(v) == IF v THEN On ELSE Off

\* C14. Mutual exclusion of the actuator: the comparison, the assignment and
\* the trigger of one set() are one critical section under the lock, which no
\* get() enters; the events triggered strictly alternate between off and on,
\* and _on is the value of the last event triggered or being triggered.
C14_MutualExclusion ==
    /\ Triggering => lock \in { "loop", "ctor" }
    /\ spc = "reading" => (lock = "status" /\ ~Triggering)
    /\ \A i \in 1 .. Len(effects) - 1 : effects[i] # effects[i + 1]
    /\ Triggering =>
          /\ pending = Some(EventOf(lights_on))
          /\ effects # << >> => effects[Len(effects)] # pending[1]
    /\ (~Triggering /\ effects # << >>) =>
          effects[Len(effects)] = EventOf(lights_on)

\* C14 witness: off, on and off again have been triggered, the loop waits for
\* the lock with one more change to command, and a get() holds the lock
C14_Witness ==
    /\ pc = "set"
    /\ on # lights_on
    /\ spc = "reading"
    /\ Len(effects) >= 3

\* C15. Loop cadence: after every iteration, whatever the outcome of its tick,
\* the loop waits on the flag and clears it before the next evaluation; a
\* tick is entered from the clear of the iteration before it (or, the first
\* time, from the construction) and from nowhere else.
C15_LoopCadence ==
    [][(pc' = "loop" /\ pc # "loop") => pc \in { "clear", "ctor", "ctor_trigger" }]_vars

\* C16. Single instant per tick: the value a tick is about to command is what
\* the decision formula yields at some one instant between the start of the
\* tick and its set().
C16_SingleInstant ==
    pc = "set" => on \in yielded

\* C17. The startup transition is a set() call of the loop inside a tick: the
\* first event is triggered by the running loop, and when its delivery fails
\* the scheduler is still constructed and started and the loop runs its ticks.
C17_StartupInsideTick ==
    /\ (Triggering /\ effects = << >>) => pc = "trigger"
    /\ pc # "crashed"

\* C18 (step part): only the first step of greet() writes the deadline, no
\* step makes a deadline absent, and no step of greet() changes _on or
\* triggers an event
C18_OnlyGreetWrites ==
    /\ greet_until' # greet_until => (gpc = "idle" /\ gpc' = "signal")
    /\ greet_until # None => greet_until' # None
    /\ gpc' # gpc =>
          (lights_on' = lights_on /\ effects' = effects /\ pending' = pending)

\* C18. Frame of the deadline: _greet_until is written by greet() only, a
\* tick neither modifies nor clears it, once set it is never None again, so
\* the second read of a tick finds the deadline its first read found present;
\* greet() neither changes _on nor triggers an event.
C18_DeadlineFrame ==
    /\ [][C18_OnlyGreetWrites]_vars
    /\ [](pc = "greet_cmp" => greet_until # None)

\* C18 witness: a tick is between its two reads of a deadline that is past
C18_Witness ==
    /\ pc = "greet_cmp"
    /\ greet_until # None
    /\ ~GreetCompare(now, greet_until[1])

\* a step that leaves the three signals as they are and is no failing query
Settled ==
    /\ now' = now
    /\ sun_up' = sun_up
    /\ greet_until' = greet_until
    /\ ~(pc = "sun" /\ pc' = "except")

\* every tick assigns what it computed; once the signals stay as they are and
\* no query fails, _on of a scheduler that was constructed and started comes
\* to be the decision and stays it, with no delivery under way
C19_Converges ==
    /\ [][(pc = "set" /\ pc' # "set") => lights_on' = on]_vars
    /\ <>[][Settled]_vars =>
          <>[](Serving =>
                  /\ lights_on = Desired(now, sun_up, greet_until)
                  /\ pending = None)

\* C19. Convergence: if from some point on the signals stay constant with
\* decision v and no query fails, then under fair scheduling _on eventually
\* is v and stays v, after at most one event, and no event follows.
C19_ConvergesOneEffect ==
    /\ C19_Converges
    /\ [](since <= 1)

\* C19, amended: ... after at most two events of the loop (one of a tick
\* under way when the signals settled, one of the first tick evaluated
\* after), provided the scheduler was constructed.
C19_ConvergesTwoEffects ==
    /\ C19_Converges
    /\ [](since <= 2)

\* C19 witness: with the signals as they have been since they last changed,
\* the loop has set out to trigger two events and _on is the decision, after
\* a tick whose delivery failed
C19_Witness ==
    /\ since = 2
    /\ pc = "wait"
    /\ failed # None
    /\ lights_on = Desired(now, sun_up, greet_until)

\* C20. Loopback correlation: a trigger_loopback request returns only the
\* confirmation of the trigger it issued itself, also under concurrent
\* requests and when a confirmation arrives after its request timed out.
C20_OwnConfirmation ==
    \A r \in Requests : tpc[r] = "returned" => response[r] = Some(r)

====
